---- MODULE Spec2Model ----
(***************************************************************************)
(* palettize: a composite image from the brightness of one image and the   *)
(* colour palette of another (src/palettize.go).                           *)
(*                                                                         *)
(* src/palettize.go holds two revisions of the program:                    *)
(*   rev = 1   lines 1-132, getPalette uses the hand-written sort;         *)
(*   rev = 2   lines 134-250, getPalette uses sort.Sort(ByBrightness).     *)
(* One run of main is modelled: the two decoded images are the inputs, the *)
(* palettes are extracted, and the remap loop is stepped pixel by pixel.   *)
(*                                                                         *)
(* Colours are the color.NRGBA values image/png decodes an RGBA PNG to     *)
(* (8-bit, not premultiplied); the output image is an image.RGBA whose     *)
(* pixels are color.RGBA values (8-bit, premultiplied).  The library       *)
(* functions the program calls (Color.RGBA, RGBAModel.Convert,             *)
(* image.Rect, RGBA.Set, RGBA.At, sort.Sort) are modelled by what the Go   *)
(* standard library does.                                                  *)
(***************************************************************************)
EXTENDS Integers, Sequences, FiniteSets, TLC

VARIABLES rev, sortStable, valueImg, paletteImg, pc,
          oldPalette, newPalette, ratio, imgOut, x, y

vars == <<rev, sortStable, valueImg, paletteImg, pc,
          oldPalette, newPalette, ratio, imgOut, x, y>>

---------------------------------------------------------------------------
(* Bounds of the model. *)

\* most pixels in the original ("value") image
MaxPixels == 3
\* most pixels in a palette image that is a different file from the original
MaxPalPixels == 1
\* largest X coordinate of an image's minimum corner
MaxMinX == 1

---------------------------------------------------------------------------
(* Colours. *)

NRGBA(r, g, b, a) == [R |-> r, G |-> g, B |-> b, A |-> a]

Black == NRGBA(0, 0, 0, 255)
Red   == NRGBA(255, 0, 0, 255)
Green == NRGBA(0, 255, 0, 255)
White == NRGBA(255, 255, 255, 255)
\* alpha 0 with colour channels left set, as PNG encoders commonly write it
Clear == NRGBA(255, 0, 0, 0)

Colours == {Black, Red, Green, White, Clear}

\* color.NRGBA.RGBA(): 16-bit alpha-premultiplied components
RGBA(c) ==
    [r |-> ((c.R * 257) * c.A) \div 255,
     g |-> ((c.G * 257) * c.A) \div 255,
     b |-> ((c.B * 257) * c.A) \div 255,
     a |-> c.A * 257]

\* color.RGBA.RGBA(): the components of a pixel of the output image
RGBA8(c) == [r |-> c.R * 257, g |-> c.G * 257, b |-> c.B * 257, a |-> c.A * 257]

\* color.RGBAModel.Convert, applied by image.RGBA.Set to a color.NRGBA
rgbaModel(c) ==
    LET v == RGBA(c)
    IN  [R |-> v.r \div 256, G |-> v.g \div 256, B |-> v.b \div 256, A |-> v.a \div 256]

\* the alpha test inverted
transparentInverted(c) == RGBA(c).a # 0

transparent(c) == RGBA(c).a = 0

\* a uint32 sum of three components of at most 65535 each: it never wraps
brightness(c) == RGBA(c).r + RGBA(c).g + RGBA(c).b

---------------------------------------------------------------------------
(* Images.  pix lists the pixels in the order the program scans them:      *)
(* x in the outer loop, y in the inner loop.                               *)

Rect(x0, y0, x1, y1) == [minX |-> x0, minY |-> y0, maxX |-> x1, maxY |-> y1]

Bounds(img) == img.rect
Dx(r) == r.maxX - r.minX
Dy(r) == r.maxY - r.minY
In(px, py, r) == r.minX <= px /\ px < r.maxX /\ r.minY <= py /\ py < r.maxY

Points(r) == {p \in (r.minX .. r.maxX - 1) \X (r.minY .. r.maxY - 1) : TRUE}

\* position of (px, py) in the scan of rectangle r, from 1
ScanPos(px, py, r) == (px - r.minX) * Dy(r) + (py - r.minY) + 1

At(img, px, py) == img.pix[ScanPos(px, py, img.rect)]

Shapes(n) == {s \in (1 .. n) \X (1 .. n) : s[1] * s[2] <= n}

\* the images of at most n pixels whose minimum corner is (mx, 0), mx <= m
Images(n, m) ==
    UNION {{[rect |-> Rect(mx, 0, mx + s[1], s[2]), pix |-> p] :
                p \in [1 .. s[1] * s[2] -> Colours]} :
           mx \in 0 .. m, s \in Shapes(n)}

\* the single-row images of at most n pixels at the origin
RowImages(n) ==
    UNION {{[rect |-> Rect(0, 0, w, 1), pix |-> p] : p \in [1 .. w -> Colours]} :
           w \in 1 .. n}

---------------------------------------------------------------------------
(* The output image: image.NewRGBA, RGBA.Set and RGBA.At. *)

ZeroRGBA == [R |-> 0, G |-> 0, B |-> 0, A |-> 0]

NewRGBA(r) == [rect |-> r, pix |-> [p \in Points(r) |-> ZeroRGBA]]

\* RGBA.Set: a point outside the image's rectangle is ignored
Set(img, px, py, c) ==
    IF In(px, py, img.rect)
    THEN [img EXCEPT !.pix[<<px, py>>] = rgbaModel(c)]
    ELSE img

\* RGBA.At: a point outside the image's rectangle reads as color.RGBA{}
OutAt(img, px, py) ==
    IF In(px, py, img.rect) THEN img.pix[<<px, py>>] ELSE ZeroRGBA

---------------------------------------------------------------------------
(* Palette extraction. *)

\* the double loop of getPalette: the opaque pixels, in scan order
Collect(img) == SelectSeq(img.pix, LAMBDA c : ~transparent(c))

\* rev 1, one iteration of sort's outer loop: the inner loop from index i on,
\* then the append to an empty slice
RECURSIVE sortInsert(_, _, _)
sortInsert(sorted, col, i) ==
    IF i > Len(sorted)
    THEN IF Len(sorted) = 0 THEN <<col>> ELSE sorted
    ELSE IF col = sorted[i]
    THEN sorted
    ELSE IF brightness(col) > brightness(sorted[i])
    THEN SubSeq(sorted, 1, i - 1) \o <<col>> \o SubSeq(sorted, i, Len(sorted))
    ELSE sortInsert(sorted, col, i + 1)

\* rev 1, sort: the outer loop over the first n colours of unsorted
RECURSIVE sortPrefix(_, _)
sortPrefix(unsorted, n) ==
    IF n = 0 THEN <<>>
    ELSE sortInsert(sortPrefix(unsorted, n - 1), unsorted[n], 1)

sort(unsorted) == sortPrefix(unsorted, Len(unsorted))

\* rev 2, ByBrightness.Less on two colours
Less(a, b) == brightness(a) < brightness(b)

\* rev 2, sort.Sort places col among the already ordered colours.  sort.Sort
\* orders by Less and "is not guaranteed to be stable": a build either keeps
\* colours that compare equal in their input order (stable) or not.
RECURSIVE sortPlace(_, _, _, _)
sortPlace(sorted, col, i, stable) ==
    IF i > Len(sorted)
    THEN Append(sorted, col)
    ELSE IF (stable /\ Less(col, sorted[i])) \/ (~stable /\ ~Less(sorted[i], col))
    THEN SubSeq(sorted, 1, i - 1) \o <<col>> \o SubSeq(sorted, i, Len(sorted))
    ELSE sortPlace(sorted, col, i + 1, stable)

RECURSIVE sortSortPrefix(_, _, _)
sortSortPrefix(s, n, stable) ==
    IF n = 0 THEN <<>>
    ELSE sortPlace(sortSortPrefix(s, n - 1, stable), s[n], 1, stable)

\* rev 2, sort.Sort(ByBrightness(palette))
SortByBrightness(s, stable) == sortSortPrefix(s, Len(s), stable)

getPalette(img, r, stable) ==
    IF r = 1 THEN sort(Collect(img)) ELSE SortByBrightness(Collect(img), stable)

\* index of the first colour equal to c, from 0, or -1
RECURSIVE indexFrom(_, _, _)
indexFrom(c, colors, i) ==
    IF i >= Len(colors) THEN -1
    ELSE IF colors[i + 1] = c THEN i
    ELSE indexFrom(c, colors, i + 1)

\* a colour that is not found reported as index 0
indexOfZero(c, colors) ==
    IF indexFrom(c, colors, 0) = -1 THEN 0 ELSE indexFrom(c, colors, 0)

indexOf(c, colors) == indexFrom(c, colors, 0)

---------------------------------------------------------------------------
(* The index scaling of the remap loop. *)

\* ratio := float64(len(newPalette)) / float64(len(oldPalette)), kept as the
\* pair of lengths; den = 0 is the NaN or +Inf of an empty oldPalette
Ratio(new, old) == [num |-> Len(new), den |-> Len(old)]

\* int(float64(index) * ratio).  For len(oldPalette) <= 13 the float64 product
\* truncates to floor(index * num / den) (the first difference is at
\* len(oldPalette) = 14).  With den = 0 no index exists to be scaled: -1
\* stands for the out-of-range integer the conversion of NaN or Inf gives.
ScaleIndex(index, rt) ==
    IF rt.den = 0 THEN -1 ELSE (index * rt.num) \div rt.den

---------------------------------------------------------------------------
(* main. *)

NoImage == NewRGBA(Rect(0, 0, 0, 0))

Init ==
    /\ rev \in {1, 2}
    \* how the build's sort.Sort treats equal elements; rev 1 never calls it
    /\ sortStable \in BOOLEAN
    /\ rev = 1 => sortStable
    /\ valueImg \in Images(MaxPixels, MaxMinX)
    \* os.Args[2] names the same file as os.Args[1], or another file: of that
    \* one the program reads only the pixels in scan order (getPalette), which
    \* a single-row image at the origin gives as well as any other
    /\ paletteImg \in RowImages(MaxPalPixels) \cup {valueImg}
    /\ pc = "start"
    /\ oldPalette = <<>>
    /\ newPalette = <<>>
    /\ ratio = Ratio(<<>>, <<>>)
    /\ imgOut = NoImage
    /\ x = 0
    /\ y = 0

inputs == <<rev, sortStable, valueImg, paletteImg>>

\* the palettes, the ratio and the output image, up to the loop's first pixel
Prepare ==
    /\ pc = "start"
    /\ oldPalette' = getPalette(valueImg, rev, sortStable)
    /\ newPalette' = getPalette(paletteImg, rev, sortStable)
    /\ ratio' = Ratio(newPalette', oldPalette')
    /\ LET b == Bounds(valueImg)
       IN  /\ imgOut' = NewRGBA(Rect(0, 0, Dx(b), Dy(b)))
           /\ x' = b.minX
           /\ y' = b.minY
    /\ pc' = "loop"
    /\ UNCHANGED inputs

\* y++ of the inner loop, x++ of the outer one, the loop's end
Advance ==
    LET b == Bounds(valueImg)
    IN  IF y + 1 < b.maxY
        THEN x' = x /\ y' = y + 1 /\ pc' = "loop"
        ELSE /\ x' = x + 1
             /\ y' = b.minY
             /\ pc' = IF x + 1 < b.maxX THEN "loop" ELSE "write"

\* index == -1: the pixel is copied
PassThrough ==
    /\ pc = "loop"
    /\ indexOf(At(valueImg, x, y), oldPalette) = -1
    /\ imgOut' = Set(imgOut, x, y, At(valueImg, x, y))
    /\ Advance
    /\ UNCHANGED <<inputs, oldPalette, newPalette, ratio>>

\* index found: the pixel is set to newPalette[int(float64(index)*ratio)]
Replace ==
    /\ pc = "loop"
    /\ LET index == indexOf(At(valueImg, x, y), oldPalette)
           j == ScaleIndex(index, ratio)
       IN  /\ index # -1
           /\ 0 <= j /\ j < Len(newPalette)
           /\ imgOut' = Set(imgOut, x, y, newPalette[j + 1])
    /\ Advance
    /\ UNCHANGED <<inputs, oldPalette, newPalette, ratio>>

\* index found, and newPalette[...] panics: index out of range
IndexPanic ==
    /\ pc = "loop"
    /\ LET index == indexOf(At(valueImg, x, y), oldPalette)
           j == ScaleIndex(index, ratio)
       IN  /\ index # -1
           /\ ~(0 <= j /\ j < Len(newPalette))
    /\ pc' = "panic"
    /\ UNCHANGED <<inputs, oldPalette, newPalette, ratio, imgOut, x, y>>

\* writeImage(imgOut, os.Args[3])
Write ==
    /\ pc = "write"
    /\ pc' = "done"
    /\ UNCHANGED <<inputs, oldPalette, newPalette, ratio, imgOut, x, y>>

Next == Prepare \/ PassThrough \/ Replace \/ IndexPanic \/ Write

Spec == Init /\ [][Next]_vars

---------------------------------------------------------------------------
(* Vocabulary of the properties. *)

SrcPoints == Points(Bounds(valueImg))
SrcAt(p) == At(valueImg, p[1], p[2])
Out(p) == OutAt(imgOut, p[1], p[2])

Alpha0(c) == c.A = 0
Extracted == pc # "start"
LoopFinished == pc \in {"write", "done"}

\* brightness of a pixel of the output image
brightness8(c) == RGBA8(c).r + RGBA8(c).g + RGBA8(c).b

Ascending(pal) ==
    \A p, q \in 1 .. Len(pal) : p < q => brightness(pal[p]) <= brightness(pal[q])

NoDuplicates(pal) ==
    \A p, q \in 1 .. Len(pal) : p # q => pal[p] # pal[q]

\* position in sequence s at which colour c first stands
FirstAt(s, c) ==
    CHOOSE i \in 1 .. Len(s) : s[i] = c /\ \A k \in 1 .. i - 1 : s[k] # c

\* distinct colours of equal brightness stand in pal in the order in which
\* the scan of img first meets them
TiesInScanOrder(pal, img) ==
    \A p, q \in 1 .. Len(pal) :
        (/\ pal[p] # pal[q]
         /\ brightness(pal[p]) = brightness(pal[q])
         /\ FirstAt(img.pix, pal[p]) < FirstAt(img.pix, pal[q]))
            => FirstAt(pal, pal[p]) < FirstAt(pal, pal[q])

---------------------------------------------------------------------------
(* The properties. *)

\* C1: in the remap loop, whenever indexOf finds the source pixel's colour in
\* oldPalette at index i, the scaled index j read from newPalette satisfies
\* 0 <= j <= len(newPalette)-1, also when newPalette is empty.
C1_ScaledIndexInRange ==
    pc = "loop" =>
        LET index == indexOf(At(valueImg, x, y), oldPalette)
        IN  index # -1 =>
                /\ 0 <= ScaleIndex(index, ratio)
                /\ ScaleIndex(index, ratio) <= Len(newPalette) - 1

\* C2: the palettes getPalette returns are ordered from least to most
\* brightness, in both revisions.
C2_PaletteAscending ==
    Extracted => Ascending(oldPalette) /\ Ascending(newPalette)

\* C3: the palettes getPalette returns never hold two equal colours, in both
\* revisions.
C3_PaletteNoDuplicates ==
    Extracted => NoDuplicates(oldPalette) /\ NoDuplicates(newPalette)

\* C4: indexOf(pixel, oldPalette) is -1 only for transparent source pixels:
\* every opaque pixel of the source image has its colour in oldPalette.
C4_OnlyTransparentNotFound ==
    Extracted =>
        \A p \in SrcPoints : indexOf(SrcAt(p), oldPalette) = -1 => Alpha0(SrcAt(p))

\* C5: every source pixel with alpha = 0 is left unchanged: once the loop has
\* finished the output pixel at its coordinates has the components of the
\* source pixel, and at no time does it hold a colour of newPalette.
C5_TransparentUnchanged ==
    \A p \in SrcPoints :
        Alpha0(SrcAt(p)) =>
            /\ LoopFinished => RGBA8(Out(p)) = RGBA(SrcAt(p))
            /\ \A k \in 1 .. Len(newPalette) : Out(p) # rgbaModel(newPalette[k])

\* C5 witness: a finished run over a source image with a transparent pixel
\* inside the output image and an opaque pixel that was replaced.
C5_Witness ==
    /\ pc = "done"
    /\ \E p, q \in SrcPoints :
        /\ Alpha0(SrcAt(p)) /\ In(p[1], p[2], imgOut.rect)
        /\ ~Alpha0(SrcAt(q)) /\ In(q[1], q[2], imgOut.rect)
        /\ Out(q) # rgbaModel(SrcAt(q))

NoOpaque(img) == \A i \in 1 .. Len(img.pix) : Alpha0(img.pix[i])

C9_TiesInEncounterOrder ==
    Extracted =>
        /\ TiesInScanOrder(oldPalette, valueImg)
        /\ TiesInScanOrder(newPalette, paletteImg)

\* C10: for a palette image with an opaque pixel, opaque source pixels p and q
\* with brightness(p) < brightness(q) end with
\* brightness(output at p) <= brightness(output at q).
C10_BrightnessOrderKept ==
    (LoopFinished /\ ~NoOpaque(paletteImg)) =>
        \A p, q \in SrcPoints :
            (/\ ~Alpha0(SrcAt(p))
             /\ ~Alpha0(SrcAt(q))
             /\ brightness(SrcAt(p)) < brightness(SrcAt(q)))
                => brightness8(Out(p)) <= brightness8(Out(q))

====
